---- MODULE Spec2Model ----
(***************************************************************************)
(* Model of lume-services' flow-of-flows composer                          *)
(* (lume_services/scheduling/schema/flow_of_flows_schema.py), of the local *)
(* scheduling backend (lume_services/services/scheduling/backends/local.py)*)
(* and of the results store exercised by lume_services/tests/              *)
(* test_results.py.                                                        *)
(*                                                                         *)
(* Python values are modelled as follows.                                  *)
(*   str        a TLA+ string; f-strings are string concatenation (\o).    *)
(*   dict       a sequence of <<key, value>> pairs in insertion order; a   *)
(*              key is held once, and re-assigning it keeps its position.  *)
(*   Optional   None is the record [isNone |-> TRUE], a present value v is *)
(*              [isNone |-> FALSE, v |-> v].                               *)
(*   object     a Parameter is a heap cell, named by a reference; every    *)
(*              holder of the reference sees an assignment to its name.    *)
(***************************************************************************)
EXTENDS Integers, Sequences, FiniteSets, TLC

\* Bounds of the model.
MaxFlows == 3
MaxMapped == 2
MaxStored == 3

VARIABLES
    descriptors,      \* the list of flow descriptors handed to FlowOfFlows(...)
    pc,               \* where the FlowOfFlows object is in its life
    composing_flows,  \* FlowOfFlows.composing_flows: dict flow name -> Flow
    error,            \* the exception the last operation raised, or None
    parameter_objs,   \* heap of prefect Parameter objects: reference -> [name]
    i,                \* compose: index of the next composing flow
    params,           \* compose: dict merged parameter name -> Parameter reference
    flow_runs,        \* compose: dict flow name -> create_flow_run node id
    flow_waits,       \* compose: dict flow name -> wait_for_flow_run node id
    flow_run,         \* compose: the local variable flow_run (0: unbound)
    tasks,            \* merged workflow: sequence of task nodes, a node's id is its index
    edges,            \* merged workflow: set_upstream edges <<upstream id, downstream id>>
    status,           \* execution of the merged workflow: node id -> state
    flow_config,      \* LocalBackend: prefect flow name -> its run_config attribute
    backend_call,     \* LocalBackend: the last call, its arguments and its outcome
    store,            \* results store: collection name -> sequence of stored documents
    store_call        \* results store: the last call, its arguments and its outcome

composerVars == <<descriptors, pc, composing_flows, error, parameter_objs, i, params,
                  flow_runs, flow_waits, flow_run, tasks, edges, status>>

backendVars == <<flow_config, backend_call>>

storeVars == <<store, store_call>>

vars == <<composerVars, backendVars, storeVars>>

-----------------------------------------------------------------------------
(* Python values *)

None == [isNone |-> TRUE]

Some(x) == [isNone |-> FALSE, v |-> x]

EmptyDict == <<>>

DictHas(d, k) == \E n \in 1..Len(d) : d[n][1] = k

DictIndex(d, k) == CHOOSE n \in 1..Len(d) : d[n][1] = k

\* d[k], for a key that d holds.
DictGet(d, k) == d[DictIndex(d, k)][2]

\* d[k] = x
DictPut(d, k, x) ==
    IF DictHas(d, k)
    THEN [d EXCEPT ![DictIndex(d, k)] = <<k, x>>]
    ELSE Append(d, <<k, x>>)

\* list(d.keys())
DictKeys(d) == [n \in 1..Len(d) |-> d[n][1]]

\* {k: x for (k, x) in pairs}, built as the comprehension builds it: a later
\* pair with a key already held replaces the value and keeps the position.
RECURSIVE DictOf(_)
DictOf(pairs) ==
    IF pairs = <<>> THEN EmptyDict
    ELSE DictPut(DictOf(SubSeq(pairs, 1, Len(pairs) - 1)),
                 pairs[Len(pairs)][1], pairs[Len(pairs)][2])

\* ", ".join(s)
RECURSIVE Join(_)
Join(s) ==
    IF s = <<>> THEN ""
    ELSE IF Len(s) = 1 THEN s[1]
    ELSE s[1] \o ", " \o Join(Tail(s))

-----------------------------------------------------------------------------
(* The external scheduler's registry: the flows FlowView.from_flow_name finds. *)

Registry ==
    << [name |-> "a", project_name |-> "proj",
        parameters |-> <<"p", "b-p">>,
        tasks |-> << [name |-> "t", slug |-> "t-1"] >>],
       [name |-> "a-b", project_name |-> "proj",
        parameters |-> <<"p">>,
        tasks |-> << [name |-> "t", slug |-> "t-1"] >>],
       [name |-> "c", project_name |-> "proj",
        parameters |-> <<"p", "q">>,
        tasks |-> << [name |-> "t", slug |-> "t-1"],
                     [name |-> "u", slug |-> "u-1"] >>] >>

RegisteredNames == {Registry[n].name : n \in 1..Len(Registry)}

\* FlowView.from_flow_name(name, project_name=..., last_updated=True).flow
from_flow_name(name, project_name) ==
    Registry[CHOOSE n \in 1..Len(Registry) :
                 Registry[n].name = name /\ Registry[n].project_name = project_name]

-----------------------------------------------------------------------------
(* Exceptions *)

ParameterNotInFlowError(parameter_name, flow_name) ==
    [type |-> "ParameterNotInFlowError",
     flow_name |-> flow_name,
     parameter_name |-> parameter_name,
     message |-> "Parameter " \o parameter_name \o " not in flow " \o flow_name \o "."]

ParentFlowNotInFlowsError(flow_name, flows) ==
    [type |-> "ParentFlowNotInFlowsError",
     flow_name |-> flow_name,
     flows |-> flows,
     message |-> "Parent flow " \o flow_name \o " not in flows: " \o Join(flows) \o "."]

TaskNotInFlowError(flow_name, task_name) ==
    [type |-> "TaskNotInFlowError",
     flow_name |-> flow_name,
     task_name |-> task_name,
     message |-> "Task " \o flow_name \o " not in flow " \o task_name \o "."]

IsError(e) == ~e.isNone

-----------------------------------------------------------------------------
(* FlowOfFlows construction: the composing_flows validator *)

ParameterRef(flow_name, parameter) == <<flow_name, parameter>>

\* One Flow object (lines 68-89).
MakeFlow(flow) ==
    LET deserialized_flow == from_flow_name(flow.name, flow.project_name)
        declared == deserialized_flow.parameters
        given == flow.mapped_parameters.v
        found == deserialized_flow.tasks
    IN  [name |-> flow.name,
         project_name |-> flow.project_name,
         prefect_flow |-> deserialized_flow.name,
         parameters |-> DictOf([n \in 1..Len(declared) |->
                                  <<declared[n], ParameterRef(flow.name, declared[n])>>]),
         mapped_parameters |->
             IF flow.mapped_parameters.isNone THEN None
             ELSE Some(DictOf([n \in 1..Len(given) |-> <<given[n].name, given[n]>>])),
         task_slugs |-> DictOf([n \in 1..Len(found) |-> <<found[n].name, found[n].slug>>])]

\* First loop of the validator: flows[flow["name"]] = Flow(...).
RECURSIVE MakeFlows(_)
MakeFlows(v) ==
    IF v = <<>> THEN EmptyDict
    ELSE DictPut(MakeFlows(SubSeq(v, 1, Len(v) - 1)), v[Len(v)].name, MakeFlow(v[Len(v)]))

\* The checks of one mapped parameter without the check of the parameter
\* against the flow's own parameters.
ValidateMappedParameterUndeclared(flows, flow_name, flow, parameter_name, parameter) ==
    IF ~DictHas(flows, parameter.parent_flow_name)
    THEN Some(ParentFlowNotInFlowsError(parameter.parent_flow_name, DictKeys(flows)))
    ELSE IF ~DictHas(DictGet(flows, parameter.parent_flow_name).task_slugs,
                     parameter.parent_task_name)
    THEN Some(TaskNotInFlowError(parameter.parent_flow_name, parameter.parent_task_name))
    ELSE None

\* The checks of one mapped parameter, reporting a missing parent flow under
\* the name of the flow that owns the parameter.
ValidateMappedParameterOwnName(flows, flow_name, flow, parameter_name, parameter) ==
    IF ~DictHas(flow.parameters, parameter_name)
    THEN Some(ParameterNotInFlowError(parameter_name, flow_name))
    ELSE IF ~DictHas(flows, parameter.parent_flow_name)
    THEN Some(ParentFlowNotInFlowsError(flow_name, DictKeys(flows)))
    ELSE IF ~DictHas(DictGet(flows, parameter.parent_flow_name).task_slugs,
                     parameter.parent_task_name)
    THEN Some(TaskNotInFlowError(parameter.parent_flow_name, parameter.parent_task_name))
    ELSE None

\* The three checks of one mapped parameter (lines 96-113): the exception
\* raised, or None.
ValidateMappedParameter(flows, flow_name, flow, parameter_name, parameter) ==
    IF ~DictHas(flow.parameters, parameter_name)
    THEN Some(ParameterNotInFlowError(parameter_name, flow_name))
    ELSE IF ~DictHas(flows, parameter.parent_flow_name)
    THEN Some(ParentFlowNotInFlowsError(parameter.parent_flow_name, DictKeys(flows)))
    ELSE IF ~DictHas(DictGet(flows, parameter.parent_flow_name).task_slugs,
                     parameter.parent_task_name)
    THEN Some(TaskNotInFlowError(parameter.parent_flow_name, parameter.parent_task_name))
    ELSE None

\* for parameter_name, parameter in flow.mapped_parameters.items(), from the
\* n-th item on: the first exception raised, or None.
RECURSIVE ValidateMapped(_, _, _, _)
ValidateMapped(flows, flow_name, flow, n) ==
    LET mapped == flow.mapped_parameters.v
    IN  IF n > Len(mapped) THEN None
        ELSE LET e == ValidateMappedParameter(flows, flow_name, flow,
                                              mapped[n][1], mapped[n][2])
             IN  IF IsError(e) THEN e
                 ELSE ValidateMapped(flows, flow_name, flow, n + 1)

\* for flow_name, flow in flows.items(), from the n-th item on (lines 92-113).
RECURSIVE ValidateFlows(_, _)
ValidateFlows(flows, n) ==
    IF n > Len(flows) THEN None
    ELSE LET flow == flows[n][2]
             e == IF flow.mapped_parameters.isNone THEN None
                  ELSE ValidateMapped(flows, flows[n][1], flow, 1)
         IN  IF IsError(e) THEN e ELSE ValidateFlows(flows, n + 1)

\* The heap after the flows of v have been deserialized: one Parameter object
\* per declared parameter, named as declared.
DeserializedParameters(v) ==
    LET refs == UNION { {ParameterRef(v[n].name, p) :
                            p \in {from_flow_name(v[n].name, v[n].project_name).parameters[k] :
                                     k \in 1..Len(from_flow_name(v[n].name, v[n].project_name).parameters)}} :
                        n \in 1..Len(v) }
    IN  [r \in refs |-> [name |-> r[2]]]

-----------------------------------------------------------------------------
(* Inputs *)

\* Lists of distinct registered flow names, 1 to MaxFlows long.
NameLists ==
    UNION { {s \in [1..n -> RegisteredNames] :
                \A a, b \in 1..n : a # b => s[a] # s[b]} : n \in 1..MaxFlows }

MappedParameterDescriptors ==
    [name : {"p", "q"}, parent_flow_name : RegisteredNames, parent_task_name : {"t", "u"}]

RECURSIVE SumTo(_, _)
SumTo(c, n) == IF n = 0 THEN 0 ELSE SumTo(c, n - 1) + (IF c[n] < 0 THEN 0 ELSE c[n])

\* Per flow, the number of mapped-parameter descriptors (-1: the key is absent
\* or None), at most MaxMapped over the whole list.
MappedCounts(n) == {c \in [1..n -> -1..MaxMapped] : SumTo(c, n) <= MaxMapped}

Descriptors(names, counts, flat) ==
    [n \in 1..Len(names) |->
        [name |-> names[n],
         project_name |-> "proj",
         mapped_parameters |->
             IF counts[n] < 0 THEN None
             ELSE Some(SubSeq(flat, SumTo(counts, n - 1) + 1, SumTo(counts, n)))]]

-----------------------------------------------------------------------------
(* Specification *)

\* Nothing has been called on the backend or on the results store.
BackendIdle ==
    /\ flow_config = [name \in RegisteredNames |-> None]
    /\ backend_call = [op |-> "none"]

StoreEmpty ==
    /\ store = [collection \in {"generic", "impact"} |-> <<>>]
    /\ store_call = [op |-> "none"]

Init ==
    /\ BackendIdle
    /\ StoreEmpty
    /\ \E names \in NameLists :
         \E counts \in MappedCounts(Len(names)) :
           \E flat \in [1..SumTo(counts, Len(names)) -> MappedParameterDescriptors] :
             descriptors = Descriptors(names, counts, flat)
    /\ pc = "new"
    /\ composing_flows = EmptyDict
    /\ error = None
    /\ parameter_objs = <<>>
    /\ i = 0
    /\ params = EmptyDict
    /\ flow_runs = EmptyDict
    /\ flow_waits = EmptyDict
    /\ flow_run = 0
    /\ tasks = <<>>
    /\ edges = {}
    /\ status = <<>>

\* FlowOfFlows(name=..., project_name=..., composing_flows=descriptors)
Construct ==
    /\ pc = "new"
    /\ LET flows == MakeFlows(descriptors)
           e == ValidateFlows(flows, 1)
       IN  /\ error' = e
           /\ parameter_objs' = DeserializedParameters(descriptors)
           /\ IF IsError(e)
              THEN /\ pc' = "construction_failed"
                   /\ composing_flows' = EmptyDict
              ELSE /\ pc' = "constructed"
                   /\ composing_flows' = flows
    /\ UNCHANGED <<descriptors, i, params, flow_runs, flow_waits, flow_run,
                   tasks, edges, status, backendVars, storeVars>>

-----------------------------------------------------------------------------
(* FlowOfFlows.compose *)

\* Task nodes of the merged workflow, as the prefect task library's calls make them.
create_flow_run(flow_name, project_name, parameters) ==
    [task |-> "create_flow_run", flow_name |-> flow_name,
     project_name |-> project_name, parameters |-> parameters]

wait_for_flow_run(flow_run_id, raise_final_state) ==
    [task |-> "wait_for_flow_run", flow_run_id |-> flow_run_id,
     raise_final_state |-> raise_final_state]

get_task_run_result(flow_run_id, task_slug) ==
    [task |-> "get_task_run_result", flow_run_id |-> flow_run_id,
     task_slug |-> task_slug]

\* Values of a run request's parameters: a Parameter object of the merged
\* workflow (a literal, supplied when the merged workflow runs) or the result
\* of a task node of the merged workflow (a deferred reference).
ParameterValue(ref) == [parameter |-> ref]

TaskResultValue(id) == [result_of |-> id]

IsDeferred(x) == "result_of" \in DOMAIN x

KeyError(key) == [type |-> "KeyError", key |-> key]

\* f"{flow_name}-{param_name}"
MergedName(flow_name, param_name) == flow_name \o "-" \o param_name

IsMapped(flow, param_name) ==
    ~flow.mapped_parameters.isNone /\ DictHas(flow.mapped_parameters.v, param_name)

\* for param_name, param in flow.parameters.items(), from the n-th item on
\* (lines 131-141). acc holds parameter_objs, params and flow_params.
RECURSIVE RegisterParameters(_, _, _, _)
RegisterParameters(flow_name, flow, n, acc) ==
    IF n > Len(flow.parameters) THEN acc
    ELSE LET param_name == flow.parameters[n][1]
             param == flow.parameters[n][2]
             name == MergedName(flow_name, param_name)
         IN  IF IsMapped(flow, param_name)
             THEN RegisterParameters(flow_name, flow, n + 1, acc)
             ELSE RegisterParameters(flow_name, flow, n + 1,
                      [parameter_objs |-> [acc.parameter_objs EXCEPT ![param].name = name],
                       params |-> DictPut(acc.params, name, param),
                       flow_params |-> DictPut(acc.flow_params, param_name,
                                                ParameterValue(param))])

\* for param_name, mapped_param in flow.mapped_parameters.items(), from the
\* n-th item on (lines 155-165). acc holds tasks, flow_params, upstream_flows
\* and raised; the loop stops at the first exception.
RECURSIVE MapParameters(_, _, _, _, _)
MapParameters(flows, runs, flow, n, acc) ==
    IF n > Len(flow.mapped_parameters.v) THEN acc
    ELSE LET param_name == flow.mapped_parameters.v[n][1]
             mapped_param == flow.mapped_parameters.v[n][2]
             task_slug == DictGet(DictGet(flows, mapped_param.parent_flow_name).task_slugs,
                                  mapped_param.parent_task_name)
         IN  IF ~DictHas(runs, mapped_param.parent_flow_name)
             THEN [acc EXCEPT !.raised = Some(KeyError(mapped_param.parent_flow_name))]
             ELSE MapParameters(flows, runs, flow, n + 1,
                      [tasks |-> Append(acc.tasks,
                                        get_task_run_result(
                                            DictGet(runs, mapped_param.parent_flow_name),
                                            task_slug)),
                       flow_params |-> DictPut(acc.flow_params, param_name,
                                                TaskResultValue(Len(acc.tasks) + 1)),
                       upstream_flows |-> acc.upstream_flows
                                            \cup {mapped_param.parent_flow_name},
                       raised |-> None])

\* The body of the loop over the composing flows for index n (lines 128-179),
\* from the state st of the locals: the state after it.
ComposeFlow(flows, n, st) ==
    LET flow_name == flows[n + 1][1]
        flow == flows[n + 1][2]
        reg == RegisterParameters(flow_name, flow, 1,
                   [parameter_objs |-> st.parameter_objs, params |-> st.params,
                    flow_params |-> EmptyDict])
        mapped ==
            IF n > 0 /\ ~flow.mapped_parameters.isNone
            THEN MapParameters(flows, st.flow_runs, flow, 1,
                     [tasks |-> st.tasks, flow_params |-> reg.flow_params,
                      upstream_flows |-> {}, raised |-> None])
            ELSE [tasks |-> st.tasks, flow_params |-> reg.flow_params,
                  upstream_flows |-> {}, raised |-> None]
        creates == n = 0 \/ ~flow.mapped_parameters.isNone
        with_run ==
            IF creates
            THEN Append(mapped.tasks,
                        create_flow_run(flow_name, flow.project_name, mapped.flow_params))
            ELSE mapped.tasks
        run == IF creates THEN Len(with_run) ELSE st.flow_run
        with_wait == Append(with_run, wait_for_flow_run(run, TRUE))
    IN  IF IsError(mapped.raised)
        THEN [st EXCEPT !.parameter_objs = reg.parameter_objs,
                        !.params = reg.params,
                        !.tasks = mapped.tasks,
                        !.raised = mapped.raised]
        ELSE [parameter_objs |-> reg.parameter_objs,
              params |-> reg.params,
              tasks |-> with_wait,
              edges |-> st.edges \cup
                          {<<DictGet(st.flow_waits, upstream), run>> :
                              upstream \in mapped.upstream_flows},
              flow_run |-> run,
              flow_runs |-> DictPut(st.flow_runs, flow_name, run),
              flow_waits |-> DictPut(st.flow_waits, flow_name, Len(with_wait)),
              raised |-> None]

\* One pass of compose's loop over self.composing_flows.items().
ComposeStep ==
    /\ pc \in {"constructed", "composing"}
    /\ i < Len(composing_flows)
    /\ LET st == ComposeFlow(composing_flows, i,
                     [parameter_objs |-> parameter_objs, params |-> params,
                      tasks |-> tasks, edges |-> edges, flow_run |-> flow_run,
                      flow_runs |-> flow_runs, flow_waits |-> flow_waits,
                      raised |-> None])
       IN  /\ parameter_objs' = st.parameter_objs
           /\ params' = st.params
           /\ tasks' = st.tasks
           /\ edges' = st.edges
           /\ flow_run' = st.flow_run
           /\ flow_runs' = st.flow_runs
           /\ flow_waits' = st.flow_waits
           /\ error' = st.raised
           /\ IF IsError(st.raised)
              THEN pc' = "compose_failed" /\ i' = i
              ELSE pc' = "composing" /\ i' = i + 1
    /\ UNCHANGED <<descriptors, composing_flows, status, backendVars, storeVars>>

\* The end of compose: the merged workflow is validated, registered and
\* returned (lines 187-189); its tasks are then there to be run.
ComposeReturn ==
    /\ pc = "composing"
    /\ i = Len(composing_flows)
    /\ pc' = "composed"
    /\ status' = [n \in 1..Len(tasks) |-> "pending"]
    /\ UNCHANGED <<descriptors, composing_flows, error, parameter_objs, i, params,
                   flow_runs, flow_waits, flow_run, tasks, edges, backendVars, storeVars>>

-----------------------------------------------------------------------------
(* Execution of the merged workflow by the external scheduler: a task starts
   only when every task it depends on has finished. *)

\* The tasks whose results task n takes as arguments.
DataUpstream(n) ==
    IF tasks[n].task = "create_flow_run"
    THEN {tasks[n].parameters[k][2].result_of :
             k \in {j \in 1..Len(tasks[n].parameters) :
                       IsDeferred(tasks[n].parameters[j][2])}}
    ELSE {tasks[n].flow_run_id}

\* The tasks declared upstream of task n with set_upstream.
SetUpstream(n) == {e[1] : e \in {d \in edges : d[2] = n}}

StartTask(n) ==
    /\ pc = "composed"
    /\ status[n] = "pending"
    /\ \A u \in DataUpstream(n) \cup SetUpstream(n) : status[u] = "finished"
    /\ status' = [status EXCEPT ![n] = "running"]
    /\ UNCHANGED <<descriptors, pc, composing_flows, error, parameter_objs, i, params,
                   flow_runs, flow_waits, flow_run, tasks, edges, backendVars, storeVars>>

FinishTask(n) ==
    /\ pc = "composed"
    /\ status[n] = "running"
    /\ status' = [status EXCEPT ![n] = "finished"]
    /\ UNCHANGED <<descriptors, pc, composing_flows, error, parameter_objs, i, params,
                   flow_runs, flow_waits, flow_run, tasks, edges, backendVars, storeVars>>

Start == \E n \in 1..Len(tasks) : StartTask(n)

Finish == \E n \in 1..Len(tasks) : FinishTask(n)

-----------------------------------------------------------------------------
(* LocalBackend *)

\* The composer's variables while the backend or the results store is used.
ComposerIdle ==
    /\ descriptors = <<>>
    /\ pc = "new"
    /\ composing_flows = EmptyDict
    /\ error = None
    /\ parameter_objs = <<>>
    /\ i = 0
    /\ params = EmptyDict
    /\ flow_runs = EmptyDict
    /\ flow_waits = EmptyDict
    /\ flow_run = 0
    /\ tasks = <<>>
    /\ edges = {}
    /\ status = <<>>

\* Exceptions of lume_services.errors, raised without arguments.
EmptyResultError == [type |-> "EmptyResultError"]

LocalBackendError == [type |-> "LocalBackendError"]

TaskNotInFlow == [type |-> "TaskNotInFlowError"]

FileNotFoundError(path) == [type |-> "FileNotFoundError", path |-> path]

\* The directories os.path.isdir finds; the first is os.getcwd().
Directories == <<"/cwd", "/work">>

isdir(path) == \E n \in 1..Len(Directories) : Directories[n] = path

\* LocalRunConfig(**kwargs): the validator runs on a working_dir that is given,
\* not on the default. The exception raised and the object made.
LocalRunConfig(kwargs) ==
    IF DictHas(kwargs, "working_dir") /\ ~isdir(DictGet(kwargs, "working_dir"))
    THEN [raised |-> Some(FileNotFoundError(DictGet(kwargs, "working_dir"))),
          value |-> None]
    ELSE [raised |-> None,
          value |-> Some([env |-> IF DictHas(kwargs, "env")
                                  THEN Some(DictGet(kwargs, "env")) ELSE None,
                          working_dir |-> IF DictHas(kwargs, "working_dir")
                                          THEN DictGet(kwargs, "working_dir")
                                          ELSE Directories[1]])]

\* LocalRun(**run_config.dict(exclude_none=True))
LocalRun(run_config) ==
    IF run_config.env.isNone
    THEN [type |-> "LocalRun", working_dir |-> run_config.working_dir]
    ELSE [type |-> "LocalRun", working_dir |-> run_config.working_dir,
          env |-> run_config.env.v]

\* flow.slugs of a prefect flow: dict task -> slug.
Slugs(flow) == [n \in 1..Len(flow.tasks) |-> <<flow.tasks[n].name, flow.tasks[n].slug>>]

\* What flow.run(parameters=data) can leave in flow_run.result: None, or a
\* dict task -> state whose result is derived from the run's parameters.
FlowRunResults(flow, data) ==
    {None,
     Some([n \in 1..Len(flow.tasks) |->
              <<flow.tasks[n].name, [result |-> <<flow.tasks[n].name, data>>]>>])}

\* LocalBackend.run (lines 48-81): the exception raised, and the flow's
\* run_config attribute after the call.
run(data, run_config, flow, kwargs, config_before) ==
    LET made == IF run_config.isNone THEN LocalRunConfig(kwargs)
                ELSE [raised |-> None, value |-> run_config]
    IN  IF IsError(made.raised)
        THEN [raised |-> made.raised, returned |-> None, ran |-> FALSE,
              run_config |-> config_before]
        ELSE [raised |-> None, returned |-> None, ran |-> TRUE,
              run_config |-> Some(LocalRun(made.value.v))]

\* LocalBackend.run_and_return with the checks on the task slug and on the
\* result in the other order.
run_and_return_slug_first(data, run_config, task_slug, flow, kwargs, result, config_before) ==
    LET made == IF run_config.isNone THEN LocalRunConfig(kwargs)
                ELSE [raised |-> None, value |-> run_config]
        slugs == Slugs(flow)
        slug_to_task_map == DictOf([n \in 1..Len(slugs) |-> <<slugs[n][2], slugs[n][1]>>])
        applied == Some(LocalRun(made.value.v))
    IN  IF IsError(made.raised)
        THEN [raised |-> made.raised, returned |-> None, ran |-> FALSE,
              run_config |-> config_before]
        ELSE IF ~task_slug.isNone /\ ~DictHas(slug_to_task_map, task_slug.v)
        THEN [raised |-> Some(TaskNotInFlow), returned |-> None, ran |-> TRUE,
              run_config |-> applied]
        ELSE IF result.isNone
        THEN [raised |-> Some(EmptyResultError), returned |-> None, ran |-> TRUE,
              run_config |-> applied]
        ELSE IF ~task_slug.isNone
        THEN [raised |-> None, ran |-> TRUE, run_config |-> applied,
              returned |-> Some(DictGet(result.v,
                                        DictGet(slug_to_task_map, task_slug.v)).result)]
        ELSE [raised |-> None, ran |-> TRUE, run_config |-> applied,
              returned |-> Some([n \in 1..Len(slug_to_task_map) |->
                                   <<slug_to_task_map[n][1],
                                     DictGet(result.v, slug_to_task_map[n][2]).result>>])]

\* LocalBackend.run_and_return (lines 83-134): the exception raised or the
\* value returned, and the flow's run_config attribute after the call. result
\* is what the flow run left in flow_run.result.
run_and_return(data, run_config, task_slug, flow, kwargs, result, config_before) ==
    LET made == IF run_config.isNone THEN LocalRunConfig(kwargs)
                ELSE [raised |-> None, value |-> run_config]
        slugs == Slugs(flow)
        slug_to_task_map == DictOf([n \in 1..Len(slugs) |-> <<slugs[n][2], slugs[n][1]>>])
        applied == Some(LocalRun(made.value.v))
    IN  IF IsError(made.raised)
        THEN [raised |-> made.raised, returned |-> None, ran |-> FALSE,
              run_config |-> config_before]
        ELSE IF result.isNone
        THEN [raised |-> Some(EmptyResultError), returned |-> None, ran |-> TRUE,
              run_config |-> applied]
        ELSE IF ~task_slug.isNone
        THEN IF ~DictHas(slug_to_task_map, task_slug.v)
             THEN [raised |-> Some(TaskNotInFlow), returned |-> None, ran |-> TRUE,
                   run_config |-> applied]
             ELSE [raised |-> None, ran |-> TRUE, run_config |-> applied,
                   returned |-> Some(DictGet(result.v,
                                             DictGet(slug_to_task_map, task_slug.v)).result)]
        ELSE [raised |-> None, ran |-> TRUE, run_config |-> applied,
              returned |-> Some([n \in 1..Len(slug_to_task_map) |->
                                   <<slug_to_task_map[n][1],
                                     DictGet(result.v, slug_to_task_map[n][2]).result>>])]

\* Arguments of the backend's calls.
DataArguments == { << <<"p", 1>> >>, << <<"p", 2>> >> }

RunConfigArguments == {None, Some([env |-> None, working_dir |-> "/work"])}

KeywordArguments ==
    { EmptyDict, << <<"working_dir", "/work">> >>, << <<"working_dir", "/missing">> >> }

TaskSlugArguments == {None, Some("t-1"), Some("u-1"), Some("x-1")}

FlowArguments == {from_flow_name("a", "proj"), from_flow_name("c", "proj")}

Run ==
    \E data \in DataArguments, run_config \in RunConfigArguments,
       flow \in FlowArguments, kwargs \in KeywordArguments :
        LET out == run(data, run_config, flow, kwargs, flow_config[flow.name])
        IN  /\ backend_call' = [op |-> "run", data |-> data, run_config |-> run_config,
                                flow |-> flow.name, kwargs |-> kwargs,
                                raised |-> out.raised, returned |-> out.returned,
                                ran |-> out.ran]
            /\ flow_config' = [flow_config EXCEPT ![flow.name] = out.run_config]
            /\ UNCHANGED <<composerVars, storeVars>>

RunAndReturn ==
    \E data \in DataArguments, run_config \in RunConfigArguments,
       task_slug \in TaskSlugArguments, flow \in FlowArguments,
       kwargs \in KeywordArguments :
        \E result \in FlowRunResults(flow, data) :
            LET out == run_and_return(data, run_config, task_slug, flow, kwargs, result,
                                      flow_config[flow.name])
            IN  /\ backend_call' = [op |-> "run_and_return", data |-> data,
                                    run_config |-> run_config, task_slug |-> task_slug,
                                    flow |-> flow.name, kwargs |-> kwargs,
                                    result |-> IF out.ran THEN result ELSE None,
                                    raised |-> out.raised, returned |-> out.returned,
                                    ran |-> out.ran]
                /\ flow_config' = [flow_config EXCEPT ![flow.name] = out.run_config]
                /\ UNCHANGED <<composerVars, storeVars>>

\* create_project, register_flow and load_flow (lines 136-161).
create_project(args, kwargs) == [raised |-> Some(LocalBackendError), returned |-> None]

register_flow(args, kwargs) == [raised |-> Some(LocalBackendError), returned |-> None]

\* A load_flow that returns the named flow when given a name and a project.
load_flow_returning(args, kwargs) ==
    IF Len(args) = 2
    THEN [raised |-> None, returned |-> Some(from_flow_name(args[1], args[2]))]
    ELSE [raised |-> Some(LocalBackendError), returned |-> None]

load_flow(args, kwargs) == [raised |-> Some(LocalBackendError), returned |-> None]

PositionalArguments == { <<>>, <<"proj">>, <<"a", "proj">> }

CreateProject ==
    \E args \in PositionalArguments, kwargs \in KeywordArguments :
        /\ backend_call' = [op |-> "create_project", args |-> args, kwargs |-> kwargs,
                            raised |-> create_project(args, kwargs).raised,
                            returned |-> create_project(args, kwargs).returned]
        /\ UNCHANGED <<flow_config, composerVars, storeVars>>

RegisterFlow ==
    \E args \in PositionalArguments, kwargs \in KeywordArguments :
        /\ backend_call' = [op |-> "register_flow", args |-> args, kwargs |-> kwargs,
                            raised |-> register_flow(args, kwargs).raised,
                            returned |-> register_flow(args, kwargs).returned]
        /\ UNCHANGED <<flow_config, composerVars, storeVars>>

LoadFlow ==
    \E args \in PositionalArguments, kwargs \in KeywordArguments :
        /\ backend_call' = [op |-> "load_flow", args |-> args, kwargs |-> kwargs,
                            raised |-> load_flow(args, kwargs).raised,
                            returned |-> load_flow(args, kwargs).returned]
        /\ UNCHANGED <<flow_config, composerVars, storeVars>>

InitBackend == ComposerIdle /\ BackendIdle /\ StoreEmpty

NextBackend == Run \/ RunAndReturn \/ CreateProject \/ RegisterFlow \/ LoadFlow

SpecBackend == InitBackend /\ [][NextBackend]_vars

-----------------------------------------------------------------------------
(* Results store *)

DuplicateKeyError == [type |-> "DuplicateKeyError"]

\* The Result objects of the tests: the generic and impact fixtures and the
\* results of the BSON tests, which differ in flow, in outputs or in type.
Results ==
    [model_type : {"generic", "impact"},
     flow_id : {"test_flow_id", "test_pandas_flow"},
     inputs : { << <<"input1", 2>> >> },
     outputs : { << <<"output1", 2>> >>, << <<"output1", 2>>, <<"output2", 3>> >> }]

generic_result ==
    [model_type |-> "generic", flow_id |-> "test_flow_id",
     inputs |-> << <<"input1", 2>> >>, outputs |-> << <<"output1", 2>> >>]

\* result.get_db_dict(): the document, with the result type under its alias.
get_db_dict(result) ==
    [collection |-> result.model_type, flow_id |-> result.flow_id,
     inputs |-> result.inputs, outputs |-> result.outputs]

\* What makes two documents the same logical result.
UniqueKey(document) == <<document.flow_id, document.inputs, document.outputs>>

Stored(db, collection) == {db[collection][n] : n \in 1..Len(db[collection])}

Holds(db, document) ==
    \E held \in Stored(db, document.collection) : UniqueKey(held) = UniqueKey(document)

TotalStored(db) == Len(db["generic"]) + Len(db["impact"])

\* insert_one without the unique index.
insert_one_without_index(db, document) ==
    [raised |-> None,
     returned |-> Some(TotalStored(db) + 1),
     db |-> [db EXCEPT ![document.collection] =
                Append(@, [_id |-> TotalStored(db) + 1,
                           flow_id |-> document.flow_id,
                           inputs |-> document.inputs,
                           outputs |-> document.outputs])]]

\* results_db_service.insert_one(document): the exception raised or the id
\* returned, and the store after the call.
insert_one(db, document) ==
    IF Holds(db, document)
    THEN [raised |-> Some(DuplicateKeyError), returned |-> None, db |-> db]
    ELSE [raised |-> None,
          returned |-> Some(TotalStored(db) + 1),
          db |-> [db EXCEPT ![document.collection] =
                     Append(@, [_id |-> TotalStored(db) + 1,
                                flow_id |-> document.flow_id,
                                inputs |-> document.inputs,
                                outputs |-> document.outputs])]]

\* results_db_service.find(collection=..., query=...): the documents of the
\* collection that hold the queried values, in the order stored.
RECURSIVE find(_, _, _)
find(db, collection, query) ==
    IF db[collection] = <<>> THEN <<>>
    ELSE LET held == db[collection][Len(db[collection])]
             rest == find([db EXCEPT ![collection] = SubSeq(@, 1, Len(@) - 1)],
                          collection, query)
         IN  IF /\ held.flow_id = query.flow_id
                /\ held.inputs = query.inputs
                /\ held.outputs = query.outputs
             THEN Append(rest, held)
             ELSE rest

InsertOne ==
    \E result \in Results :
        LET document == get_db_dict(result)
            out == insert_one(store, document)
        IN  /\ TotalStored(store) < MaxStored \/ Holds(store, document)
            /\ store' = out.db
            /\ store_call' = [op |-> "insert_one", document |-> document,
                              raised |-> out.raised, returned |-> out.returned]
            /\ UNCHANGED <<composerVars, backendVars>>

Find ==
    \E result \in Results :
        /\ store_call' = [op |-> "find", collection |-> result.model_type,
                          query |-> [flow_id |-> result.flow_id,
                                     inputs |-> result.inputs,
                                     outputs |-> result.outputs],
                          raised |-> None,
                          returned |-> Some(find(store, result.model_type,
                                                 [flow_id |-> result.flow_id,
                                                  inputs |-> result.inputs,
                                                  outputs |-> result.outputs]))]
        /\ UNCHANGED <<store, composerVars, backendVars>>

InitStore == ComposerIdle /\ BackendIdle /\ StoreEmpty

NextStore == InsertOne \/ Find

SpecStore == InitStore /\ [][NextStore]_vars

-----------------------------------------------------------------------------

Next == Construct \/ ComposeStep \/ ComposeReturn

Spec == Init /\ [][Next]_vars

NextExecute == Next \/ Start \/ Finish

SpecExecute == Init /\ [][NextExecute]_vars

-----------------------------------------------------------------------------
(* Vocabulary of the properties *)

FlowCount == Len(composing_flows)

FlowAt(n) == composing_flows[n][2]

\* A flow without mapped parameters: the key is absent, None or an empty list.
HasNoMapped(flow) == flow.mapped_parameters.isNone \/ flow.mapped_parameters.v = EmptyDict

NodesOf(kind) == {n \in 1..Len(tasks) : tasks[n].task = kind}

\* The run nodes created for flow name.
RunsOf(name) == {n \in NodesOf("create_flow_run") : tasks[n].flow_name = name}

\* The wait nodes that wait on a run created for flow name.
WaitsOf(name) == {n \in NodesOf("wait_for_flow_run") : tasks[n].flow_run_id \in RunsOf(name)}

\* The parent flows named by the mapped parameters of flow.
ParentsOf(flow) ==
    {flow.mapped_parameters.v[k][2].parent_flow_name :
        k \in 1..Len(flow.mapped_parameters.v)}

ComposeEnded == pc \in {"composed", "compose_failed"}

\* The non-mapped parameters: pairs <<n, k>> for the k-th parameter of the
\* n-th composing flow.
NonMappedPairs ==
    {x \in (1..FlowCount) \X (1..3) :
        /\ x[2] <= Len(FlowAt(x[1]).parameters)
        /\ ~IsMapped(FlowAt(x[1]), FlowAt(x[1]).parameters[x[2]][1])}

PairKey(x) == FlowAt(x[1]).parameters[x[2]][1]

PairRef(x) == FlowAt(x[1]).parameters[x[2]][2]

-----------------------------------------------------------------------------
(* Properties of compose *)

\* C1: once compose has ended for N composing flows none of which has
\* mapped parameters, it has returned a merged workflow with exactly N run
\* nodes, one created for each composing flow, exactly N wait nodes, and no
\* upstream edge.
C1_RunAndWaitPerFlow ==
    (ComposeEnded /\ \A n \in 1..FlowCount : HasNoMapped(FlowAt(n)))
        => /\ pc = "composed"
           /\ Cardinality(NodesOf("create_flow_run")) = FlowCount
           /\ \A n \in 1..FlowCount : Cardinality(RunsOf(FlowAt(n).name)) = 1
           /\ Cardinality(NodesOf("wait_for_flow_run")) = FlowCount
           /\ edges = {}

\* C2: once compose has returned, every flow B with mapped parameters (none
\* of them naming B itself as the parent) has one run
\* node whose upstream edges are exactly one per distinct parent flow A named
\* by B's mapped parameters, each from a wait node on A's run, and B's run
\* request holds a deferred task-result reference under every mapped parameter.
C2_OneEdgePerParent ==
    pc = "composed" =>
        \A n \in 1..FlowCount :
             (~HasNoMapped(FlowAt(n)) /\ FlowAt(n).name \notin ParentsOf(FlowAt(n))) =>
               \E r \in RunsOf(FlowAt(n).name) :
                 /\ RunsOf(FlowAt(n).name) = {r}
                 /\ Cardinality(SetUpstream(r)) = Cardinality(ParentsOf(FlowAt(n)))
                 /\ \A A \in ParentsOf(FlowAt(n)) :
                      \E w \in WaitsOf(A) : <<w, r>> \in edges
                 /\ \A k \in 1..Len(FlowAt(n).mapped_parameters.v) :
                      LET key == FlowAt(n).mapped_parameters.v[k][1]
                      IN  /\ DictHas(tasks[r].parameters, key)
                          /\ IsDeferred(DictGet(tasks[r].parameters, key))

\* C3: while the merged workflow runs, the run node of a flow with a mapped
\* parameter has not started unless a wait node on the run of each designated
\* parent flow (other than the flow itself) has finished.
C3_RunAfterParentWait ==
    pc = "composed" =>
        \A n \in 1..FlowCount :
          ~HasNoMapped(FlowAt(n)) =>
            \A r \in RunsOf(FlowAt(n).name) :
              status[r] # "pending" =>
                \A A \in ParentsOf(FlowAt(n)) \ {FlowAt(n).name} :
                  \E w \in WaitsOf(A) : status[w] = "finished"

\* C8: after construction every key of every composing Flow's parameters
\* mapping is the name of the Parameter it maps to, whatever has run since.
C8_FlowImmutable ==
    pc \in {"constructed", "composing", "composed", "compose_failed"} =>
        \A n \in 1..FlowCount :
          \A k \in 1..Len(FlowAt(n).parameters) :
            parameter_objs[FlowAt(n).parameters[k][2]].name = FlowAt(n).parameters[k][1]

\* C9: once compose has returned, every non-mapped parameter p of every
\* composing flow F is registered in the merged workflow under the name "F-p",
\* no two of them under one name, and is passed to a run request of F under
\* the key p; no mapped parameter is registered.
C9_PrefixedParameters ==
    pc = "composed" =>
        /\ \A x \in NonMappedPairs :
             LET name == FlowAt(x[1]).name \o "-" \o PairKey(x)
             IN  /\ parameter_objs[PairRef(x)].name = name
                 /\ DictHas(params, name)
                 /\ DictGet(params, name) = PairRef(x)
                 /\ \E r \in RunsOf(FlowAt(x[1]).name) :
                      /\ DictHas(tasks[r].parameters, PairKey(x))
                      /\ DictGet(tasks[r].parameters, PairKey(x)) = ParameterValue(PairRef(x))
        /\ Len(params) = Cardinality(NonMappedPairs)
        /\ \A x, y \in NonMappedPairs :
             x # y => parameter_objs[PairRef(x)].name # parameter_objs[PairRef(y)].name

-----------------------------------------------------------------------------
(* Properties of construction *)

\* The m-th mapped-parameter descriptor of the n-th flow descriptor.
HasDescriptor(n, m) ==
    /\ n \in 1..Len(descriptors)
    /\ ~descriptors[n].mapped_parameters.isNone
    /\ m \in 1..Len(descriptors[n].mapped_parameters.v)

DescriptorPlaces == {x \in (1..MaxFlows) \X (1..MaxMapped) : HasDescriptor(x[1], x[2])}

Descriptor(x) == descriptors[x[1]].mapped_parameters.v[x[2]]

Owner(x) == descriptors[x[1]].name

Registered(name) == CHOOSE f \in {Registry[n] : n \in 1..Len(Registry)} : f.name = name

DeclaredParameters(name) ==
    {Registered(name).parameters[k] : k \in 1..Len(Registered(name).parameters)}

DeclaredTasks(name) ==
    {Registered(name).tasks[k].name : k \in 1..Len(Registered(name).tasks)}

ListedNames == {descriptors[n].name : n \in 1..Len(descriptors)}

AbsentParameter(x) == Descriptor(x).name \notin DeclaredParameters(Owner(x))

AbsentParent(x) == Descriptor(x).parent_flow_name \notin ListedNames

AbsentTask(x) ==
    /\ ~AbsentParent(x)
    /\ Descriptor(x).parent_task_name \notin DeclaredTasks(Descriptor(x).parent_flow_name)

Failing(x) == AbsentParameter(x) \/ AbsentParent(x) \/ AbsentTask(x)

\* A descriptor counts when no later descriptor of the same flow names the
\* same parameter; it is validated at the place where that parameter was
\* first named.
Counts(x) ==
    \A y \in DescriptorPlaces :
        (y[1] = x[1] /\ y[2] > x[2]) => Descriptor(y).name # Descriptor(x).name

FirstNamed(x) ==
    CHOOSE m \in 1..x[2] :
        /\ Descriptor(<<x[1], m>>).name = Descriptor(x).name
        /\ \A k \in 1..(m - 1) : Descriptor(<<x[1], k>>).name # Descriptor(x).name

ValidatedBefore(y, x) ==
    y[1] < x[1] \/ (y[1] = x[1] /\ FirstNamed(y) < FirstNamed(x))

\* The first descriptor to fail, in the order of validation.
FirstFailing(x) ==
    /\ Counts(x)
    /\ Failing(x)
    /\ \A y \in DescriptorPlaces : (Counts(y) /\ ValidatedBefore(y, x)) => ~Failing(y)

Constructed == pc # "new"

\* C4 as stated: whenever some mapped-parameter descriptor names a parameter
\* its flow does not declare, construction fails with ParameterNotInFlowError
\* carrying the parameter and flow of such a descriptor.
C4_AnyAbsentParameter ==
    (Constructed /\ \E x \in DescriptorPlaces : AbsentParameter(x)) =>
        /\ pc = "construction_failed"
        /\ error.v.type = "ParameterNotInFlowError"
        /\ \E x \in DescriptorPlaces :
             /\ AbsentParameter(x)
             /\ error.v.parameter_name = Descriptor(x).name
             /\ error.v.flow_name = Owner(x)

\* C4 amended: whenever some mapped-parameter descriptor names a parameter its
\* flow does not declare, construction fails; the error is
\* ParameterNotInFlowError carrying that parameter and that flow when the
\* descriptor is the first to fail in the order of validation.
C4_AbsentParameter ==
    Constructed =>
        \A x \in DescriptorPlaces :
            AbsentParameter(x) =>
                /\ pc = "construction_failed"
                /\ FirstFailing(x) =>
                     /\ error.v.type = "ParameterNotInFlowError"
                     /\ error.v.parameter_name = Descriptor(x).name
                     /\ error.v.flow_name = Owner(x)
                     /\ DOMAIN error.v = {"type", "parameter_name", "flow_name", "message"}

\* Construction has failed on an undeclared parameter although a later
\* descriptor fails too.
C4_Witness ==
    /\ pc = "construction_failed"
    /\ error.v.type = "ParameterNotInFlowError"
    /\ \E x, y \in DescriptorPlaces :
         /\ FirstFailing(x) /\ AbsentParameter(x)
         /\ x # y /\ Failing(y) /\ ~AbsentParameter(y)

\* C5 as stated: whenever some mapped-parameter descriptor names a parent flow
\* that is not among the composing flows, construction fails with
\* ParentFlowNotInFlowsError carrying that parent flow name and the list of
\* the composing flow names.
C5_AnyAbsentParent ==
    (Constructed /\ \E x \in DescriptorPlaces : AbsentParent(x)) =>
        /\ pc = "construction_failed"
        /\ error.v.type = "ParentFlowNotInFlowsError"
        /\ \E x \in DescriptorPlaces :
             /\ AbsentParent(x)
             /\ error.v.flow_name = Descriptor(x).parent_flow_name
        /\ error.v.flows = [n \in 1..Len(descriptors) |-> descriptors[n].name]

\* C5 amended: when the first descriptor to fail in the order of validation
\* names a declared parameter and a parent flow that is not among the
\* composing flows, construction fails with ParentFlowNotInFlowsError
\* carrying that parent flow name and the list of the composing flow names.
C5_AbsentParent ==
    Constructed =>
        \A x \in DescriptorPlaces :
            (FirstFailing(x) /\ ~AbsentParameter(x) /\ AbsentParent(x)) =>
                /\ pc = "construction_failed"
                /\ error.v.type = "ParentFlowNotInFlowsError"
                /\ error.v.flow_name = Descriptor(x).parent_flow_name
                /\ error.v.flows = [n \in 1..Len(descriptors) |-> descriptors[n].name]

\* Construction has failed on a parent flow missing from a list of two or
\* more composing flows.
C5_Witness ==
    /\ pc = "construction_failed"
    /\ error.v.type = "ParentFlowNotInFlowsError"
    /\ Len(error.v.flows) >= 2
    /\ \E x \in DescriptorPlaces : FirstFailing(x) /\ ~AbsentParameter(x) /\ AbsentParent(x)

\* C6: when the first descriptor to fail in the order of validation names a
\* declared parameter, a composing parent flow and a task that flow does not
\* hold, construction fails with TaskNotInFlowError, which carries the parent
\* flow name as the flow and the parent task name as the task, in its
\* attributes and in its message.
C6_AbsentTask ==
    Constructed =>
        \A x \in DescriptorPlaces :
            (FirstFailing(x) /\ ~AbsentParameter(x) /\ AbsentTask(x)) =>
                /\ pc = "construction_failed"
                /\ error.v.type = "TaskNotInFlowError"
                /\ error.v.flow_name = Descriptor(x).parent_flow_name
                /\ error.v.task_name = Descriptor(x).parent_task_name
                /\ error.v.message = "Task " \o Descriptor(x).parent_task_name
                                       \o " not in flow "
                                       \o Descriptor(x).parent_flow_name \o "."

-----------------------------------------------------------------------------
(* Properties of LocalBackend *)

SlugsOfFlow(name) == {Registered(name).tasks[k].slug : k \in 1..Len(Registered(name).tasks)}

UnknownSlug ==
    /\ ~backend_call.task_slug.isNone
    /\ backend_call.task_slug.v \notin SlugsOfFlow(backend_call.flow)

\* C7 as stated: a run_and_return call that ran the flow has failed with
\* TaskNotInFlowError whenever its task_slug is not a slug of the flow, and
\* with EmptyResultError whenever the run produced no result.
C7_BothErrors ==
    (backend_call.op = "run_and_return" /\ backend_call.ran) =>
        /\ UnknownSlug => backend_call.raised = Some(TaskNotInFlow)
        /\ backend_call.result.isNone => backend_call.raised = Some(EmptyResultError)

\* C7 amended: a run_and_return call that ran the flow has failed with
\* EmptyResultError whenever the run produced no result, whatever its
\* task_slug, and with TaskNotInFlowError whenever the run produced a result
\* and its task_slug is given and is not a slug of the flow.
C7_ErrorPerCondition ==
    (backend_call.op = "run_and_return" /\ backend_call.ran) =>
        /\ backend_call.result.isNone => backend_call.raised = Some(EmptyResultError)
        /\ (~backend_call.result.isNone /\ UnknownSlug)
               => backend_call.raised = Some(TaskNotInFlow)

\* A call with an unknown task slug whose run produced no result has failed.
C7_Witness ==
    /\ backend_call.op = "run_and_return"
    /\ backend_call.ran
    /\ backend_call.result.isNone
    /\ UnknownSlug
    /\ backend_call.raised = Some(EmptyResultError)

-----------------------------------------------------------------------------
(* Properties of the results store *)

\* No collection holds two documents of one logical result.
NoTwoCopies ==
    \A collection \in DOMAIN store :
        \A m, n \in 1..Len(store[collection]) :
            m # n => UniqueKey(store[collection][m]) # UniqueKey(store[collection][n])

\* C10: an insert of a document whose logical result the store holds fails
\* with a duplicate-key error and leaves the store as it was, and the store
\* never holds two documents of one logical result.
C10_DuplicateInsertFails ==
    /\ []NoTwoCopies
    /\ [][(store_call'.op = "insert_one" /\ Holds(store, store_call'.document))
            => (store_call'.raised = Some(DuplicateKeyError) /\ store' = store)]_vars

\* A later insert of the generic result of the tests has failed, the store
\* holding it and another document.
C10_Witness ==
    /\ store_call.op = "insert_one"
    /\ store_call.document = get_db_dict(generic_result)
    /\ store_call.raised = Some(DuplicateKeyError)
    /\ Holds(store, store_call.document)
    /\ TotalStored(store) >= 2

-----------------------------------------------------------------------------
(* The registration methods of the local backend *)

ServerMethods == {"create_project", "register_flow", "load_flow"}

\* C11: create_project, register_flow and load_flow fail with
\* LocalBackendError on every call, whatever their positional and keyword
\* arguments and whatever calls came before; they return nothing and leave the
\* run configurations as they were.
C11_ServerMethodsFail ==
    [][backend_call'.op \in ServerMethods
         => /\ backend_call'.raised = Some(LocalBackendError)
            /\ backend_call'.returned = None
            /\ flow_config' = flow_config]_vars

\* load_flow has failed, called with a name, a project and a keyword
\* argument, after runs that set the run configuration of two flows.
C11_Witness ==
    /\ backend_call.op = "load_flow"
    /\ backend_call.args = <<"a", "proj">>
    /\ backend_call.kwargs # EmptyDict
    /\ backend_call.raised = Some(LocalBackendError)
    /\ \A name \in {"a", "c"} : ~flow_config[name].isNone

-----------------------------------------------------------------------------
(* The name-keyed mappings of compose *)

\* The composing flows whose pass of compose's loop has ended.
Composed == IF pc \in {"composing", "composed", "compose_failed"} THEN 1..i ELSE {}

\* The run and the wait recorded under a flow's name.
RecordedRun(name) == DictGet(flow_runs, name)

RecordedWait(name) == DictGet(flow_waits, name)

\* The run recorded under the name of every flow compose has passed is a run
\* created for that flow.
RecordedRunsAreOwn ==
    \A n \in Composed :
        /\ DictHas(flow_runs, FlowAt(n).name)
        /\ RecordedRun(FlowAt(n).name) \in RunsOf(FlowAt(n).name)

\* The wait recorded under a flow's name waits on the run recorded under it.
RecordedWaitsOnRecordedRun ==
    \A n \in Composed :
        /\ DictHas(flow_waits, FlowAt(n).name)
        /\ tasks[RecordedWait(FlowAt(n).name)] =
              wait_for_flow_run(RecordedRun(FlowAt(n).name), TRUE)

\* Every deferred reference in a run request is the result of the designated
\* parent task taken from a run created for the designated parent flow.
DeferredFromParentRun ==
    \A r \in NodesOf("create_flow_run") :
        \A n \in Composed :
            (tasks[r].flow_name = FlowAt(n).name /\ ~FlowAt(n).mapped_parameters.isNone) =>
                \A k \in 1..Len(FlowAt(n).mapped_parameters.v) :
                    LET key == FlowAt(n).mapped_parameters.v[k][1]
                        mapped_param == FlowAt(n).mapped_parameters.v[k][2]
                        value == DictGet(tasks[r].parameters, key)
                    IN  (DictHas(tasks[r].parameters, key) /\ IsDeferred(value)) =>
                            /\ tasks[value.result_of].task = "get_task_run_result"
                            /\ tasks[value.result_of].flow_run_id
                                  \in RunsOf(mapped_param.parent_flow_name)

\* C12: during compose, for every composing flow the loop has passed, the run
\* recorded under its name is a run created for that flow and the wait
\* recorded under its name waits on that run; every deferred reference of a
\* mapped parameter is taken from a run of the designated parent flow.
C12_RecordedRunIsOwnRun ==
    RecordedRunsAreOwn /\ RecordedWaitsOnRecordedRun /\ DeferredFromParentRun

-----------------------------------------------------------------------------
(* The wiring of the mapped parameters *)

\* The lookup flow_runs[parent_flow_name] of compose found no run.
ParentRunMissing == pc = "compose_failed" /\ error.v.type = "KeyError"

\* Every mapped parameter of the n-th composing flow is a deferred
\* task-result reference in the run request of that flow.
MappedParametersWired(n) ==
    \E r \in RunsOf(FlowAt(n).name) :
        \A k \in 1..Len(FlowAt(n).mapped_parameters.v) :
            LET key == FlowAt(n).mapped_parameters.v[k][1]
            IN  /\ DictHas(tasks[r].parameters, key)
                /\ IsDeferred(DictGet(tasks[r].parameters, key))

\* C13: after a construction that succeeded, compose never fails on the
\* lookup of a parent flow's run, and once it has returned every mapped
\* parameter of every composing flow, whatever the flow's position and the
\* order of parent and child, is a deferred task-result reference in its
\* flow's run request.
C13_EveryMappedParameterWired ==
    /\ pc # "compose_failed"
    /\ pc = "composed" =>
          \A n \in 1..FlowCount :
              ~HasNoMapped(FlowAt(n)) => MappedParametersWired(n)

====
